---------------------------- MODULE Spec2Model ----------------------------
(***************************************************************************)
(* Barnes-Hut galaxy simulation (src/common.py, src/Init_system.py).       *)
(*                                                                         *)
(* Floating point values are kept as integers and fractions of integers:   *)
(*   - a length is an integer number of length units, One units = 1.0;     *)
(*   - a mass is an integer; m_pos is mass * length, so that the position  *)
(*     m_pos/m is a fraction of integers;                                  *)
(*   - time is counted in units of the time step, so dt = 1 and a momentum *)
(*     is the m_pos increment of one drift;                                *)
(*   - the global G is the rational [num, den] by which the constant of    *)
(*     line 15 has been multiplied;                                        *)
(*   - a comparison of distances is decided on the fractions themselves;   *)
(*   - a force is the value of the source's expression on those fractions, *)
(*     rounded to the nearest integer; relative_position and a saved       *)
(*     position are m_pos/m rounded down to an integer.                    *)
(* The products these need exceed the machine integers: they are computed  *)
(* on naturals of any size, held as sequences of digits.                   *)
(* A vector is a 3-tuple of integers; NaN (the result of 0/0 on a numpy    *)
(* array) is the empty tuple.                                              *)
(***************************************************************************)
EXTENDS Integers, Sequences, FiniteSets, Bags, TLC

-----------------------------------------------------------------------------
(* Scale and program constants                                             *)

\* 1.0 in length units (the size reset_location gives the 0th-order octant)
One == 8388608

\* G = 4.4985022e-6 kpc^3/(M_sun Gyr^2) = G_e13 * 10^-13
G_e13 == 44985022

\* dt = 1.e-2 Gyr is the unit of time
dt == 1

\* theta = 0.3 = theta_num / theta_den
theta_num == 3
theta_den == 10

\* smallest_octant = 1.e-4 = 1 / smallest_octant_den
smallest_octant_den == 10000

\* cutoff_dist = 1.e-4 = 1 / cutoff_dist_den
cutoff_dist_den == 10000

\* (0.4/ini_radius)**3 with ini_radius in tenths of kpc: (4/ini_radius)^3
ini_radius_ref == 4

-----------------------------------------------------------------------------
(* Arithmetic                                                              *)

Abs(x) == IF x < 0 THEN -x ELSE x

\* division rounding towards zero
Quot(a, b) == IF a >= 0 THEN a \div b ELSE -((-a) \div b)

RECURSIVE Gcd(_, _)
Gcd(a, b) == IF b = 0 THEN a ELSE Gcd(b, a % b)

RECURSIVE isqrt_iter(_, _)
isqrt_iter(n, x) ==
    LET y == (x + n \div x) \div 2
    IN  IF y >= x THEN x ELSE isqrt_iter(n, y)

\* floor of the square root
isqrt(n) ==
    IF n < 2 THEN n
    ELSE isqrt_iter(n, IF n \div 2 > 46341 THEN 46341 ELSE n \div 2)

\* a rational in lowest terms
Ratio(a, b) == LET g == Gcd(a, b) IN [num |-> a \div g, den |-> b \div g]

\* <<floor(a*b/c), (a*b) % c>> for 0 <= b <= c < 2^29, by doubling
RECURSIVE MulDiv(_, _, _)
MulDiv(a, b, c) ==
    IF a = 0 THEN <<0, 0>>
    ELSE LET h == MulDiv(a \div 2, b, c)
             r == 2 * h[2] + (a % 2) * b
         IN  <<2 * h[1] + r \div c, r % c>>

-----------------------------------------------------------------------------
(* Naturals of any size: the sequence of the digits in base Base, the      *)
(* lowest first and the highest not 0; zero is the empty sequence          *)

\* two digits multiply within the machine integers
Base == 32768

RECURSIVE BigOf(_)
\* the natural n
BigOf(n) == IF n = 0 THEN << >> ELSE <<n % Base>> \o BigOf(n \div Base)

RECURSIVE AddC(_, _, _)
\* a + b + c for a carry c
AddC(a, b, c) ==
    IF a = << >> /\ b = << >> THEN (IF c = 0 THEN << >> ELSE <<c>>)
    ELSE LET x == IF a = << >> THEN 0 ELSE a[1]
             y == IF b = << >> THEN 0 ELSE b[1]
             s == x + y + c
         IN  <<s % Base>> \o AddC(IF a = << >> THEN a ELSE Tail(a),
                                  IF b = << >> THEN b ELSE Tail(b),
                                  s \div Base)

BigAdd(a, b) == AddC(a, b, 0)

RECURSIVE MulC(_, _, _)
\* a * k + c for a digit k and a carry c
MulC(a, k, c) ==
    IF a = << >> THEN BigOf(c)
    ELSE LET s == a[1] * k + c
         IN  <<s % Base>> \o MulC(Tail(a), k, s \div Base)

\* a * k for 0 <= k < Base * Base
Scale(a, k) ==
    IF k = 0 \/ a = << >> THEN << >>
    ELSE IF k < Base THEN MulC(a, k, 0)
    ELSE BigAdd(MulC(a, k % Base, 0), <<0>> \o MulC(a, k \div Base, 0))

RECURSIVE BigMul(_, _)
BigMul(a, b) ==
    IF a = << >> \/ b = << >> THEN << >>
    ELSE LET rest == BigMul(a, Tail(b))
         IN  BigAdd(IF b[1] = 0 THEN << >> ELSE MulC(a, b[1], 0),
                    IF rest = << >> THEN << >> ELSE <<0>> \o rest)

BigSq(a) == BigMul(a, a)

RECURSIVE BigProd(_)
\* the product of the naturals of the sequence s
BigProd(s) ==
    IF Len(s) = 0 THEN <<1>> ELSE BigMul(BigOf(s[1]), BigProd(Tail(s)))

RECURSIVE CmpFrom(_, _, _)
\* -1, 0, 1: the digits k, k-1, .. 1 of a against those of b
CmpFrom(a, b, k) ==
    IF k = 0 THEN 0
    ELSE IF a[k] # b[k] THEN (IF a[k] < b[k] THEN -1 ELSE 1)
    ELSE CmpFrom(a, b, k - 1)

\* a <= b
BigLeq(a, b) ==
    IF Len(a) # Len(b) THEN Len(a) < Len(b) ELSE CmpFrom(a, b, Len(a)) <= 0

\* a < b
BigLess(a, b) == ~BigLeq(b, a)

RECURSIVE BitLen(_)
\* the number of binary digits of n
BitLen(n) == IF n = 0 THEN 0 ELSE 1 + BitLen(n \div 2)

BigBits(a) ==
    IF a = << >> THEN 0 ELSE 15 * (Len(a) - 1) + BitLen(a[Len(a)])

\* f^2 * den <= num
Fits(f, den, num) == BigLeq(Scale(Scale(den, f), f), num)

RECURSIVE Bisect(_, _, _, _)
\* the largest f in lo..hi-1 with Fits, given Fits at lo and not at hi
Bisect(lo, hi, den, num) ==
    IF hi - lo <= 1 THEN lo
    ELSE LET mid == lo + (hi - lo) \div 2
         IN  IF Fits(mid, den, num) THEN Bisect(mid, hi, den, num)
             ELSE Bisect(lo, mid, den, num)

\* floor(sqrt(num/den)) for den > 0: the bracket is read off the numbers
\* of binary digits, 2^(b-1) < num/den < 2^(b+1)
RootQuot(den, num) ==
    LET b == BigBits(num) - BigBits(den)
    IN  IF b < 0 THEN 0
        ELSE Bisect(IF b = 0 THEN 0 ELSE 2^((b - 1) \div 2),
                    2^((b + 2) \div 2), den, num)

-----------------------------------------------------------------------------
(* Vectors (numpy arrays of 3 floats)                                      *)

NaN == << >>

IsNaN(v) == Len(v) = 0

Zero3 == <<0, 0, 0>>

VAdd(a, b) ==
    IF IsNaN(a) \/ IsNaN(b) THEN NaN ELSE [k \in 1..3 |-> a[k] + b[k]]

VSub(a, b) ==
    IF IsNaN(a) \/ IsNaN(b) THEN NaN ELSE [k \in 1..3 |-> a[k] - b[k]]

VScale(a, s) == IF IsNaN(a) THEN NaN ELSE [k \in 1..3 |-> a[k] * s]

\* a / s, rounded down to an integer
VDiv(a, s) == IF IsNaN(a) THEN NaN ELSE [k \in 1..3 |-> a[k] \div s]

\* 0.5 * x, rounded to the nearest integer, a half to the even one
Halve(x) ==
    LET t == x \div 2 IN IF x % 2 = 0 \/ t % 2 = 0 THEN t ELSE t + 1

\* 0.5 * a
VHalf(a) == IF IsNaN(a) THEN NaN ELSE [k \in 1..3 |-> Halve(a[k])]

\* the square of numpy.linalg.norm(v), a natural of any size
SumSq(v) ==
    BigAdd(BigAdd(BigSq(BigOf(Abs(v[1]))), BigSq(BigOf(Abs(v[2])))),
           BigSq(BigOf(Abs(v[3]))))

\* an axis on which v is longest
ArgMax(v) == CHOOSE k \in 1..3 : \A c \in 1..3 : Abs(v[c]) <= Abs(v[k])

-----------------------------------------------------------------------------
(* class Node                                                              *)
(*                                                                         *)
(* A body is a Node object held in the list `bodies`; a leaf of the tree   *)
(* is that same object, so the tree holds the body's index, not a copy.    *)
(* An internal node is the deep copy add() makes of a leaf; it is owned by *)
(* the tree alone and is held by value.                                    *)

None == [kind |-> "none"]

Leaf(i) == [kind |-> "body", id |-> i]

\* Node.__init__; size and relative_position are set by reset_location
Node(m, position, momentum) ==
    [m |-> m, m_pos |-> VScale(position, m), momentum |-> momentum,
     size |-> 0, relative_position |-> Zero3]

\* the object a tree entry denotes
Obj(bs, n) == IF n.kind = "body" THEN bs[n.id] ELSE n

\* node.child is None
ChildIsNone(n) == n.kind = "body"

NoChildren == [k \in 1..8 |-> None]

\* Node.position
position(o) == VDiv(o.m_pos, o.m)

\* Node.reset_location
reset_location(b) ==
    [b EXCEPT !.size = One, !.relative_position = position(b)]

\* Node.subdivide on one coordinate r: <<octant, new coordinate>>
subdivide(r) ==
    LET r2 == r * 2
    IN  IF r2 >= One THEN <<1, r2 - One>> ELSE <<0, r2>>

\* place_into_octant with the weights of the axes exchanged:
\* subdivide(0) + 2*subdivide(1) + 4*subdivide(2)
place_into_octant_zyx(b) ==
    LET s2 == subdivide(b.relative_position[3])
        s1 == subdivide(b.relative_position[2])
        s0 == subdivide(b.relative_position[1])
    IN  [obj |-> [b EXCEPT !.size = b.size \div 2,
                           !.relative_position = <<s0[2], s1[2], s2[2]>>],
         octant |-> s0[1] + 2 * s1[1] + 4 * s2[1]]

\* Node.place_into_octant: the moved object and the octant number
place_into_octant(b) ==
    IF IsNaN(b.relative_position)
    THEN [obj |-> [b EXCEPT !.size = b.size \div 2], octant |-> 0]
    ELSE
    LET s2 == subdivide(b.relative_position[3])
        s1 == subdivide(b.relative_position[2])
        s0 == subdivide(b.relative_position[1])
    IN  [obj |-> [b EXCEPT !.size = b.size \div 2,
                           !.relative_position = <<s0[2], s1[2], s2[2]>>],
         octant |-> s2[1] + 2 * s1[1] + 4 * s0[1]]

\* a size floor of 1e-5 instead of 1e-4
AboveSmallest_tenth(size) == size > One \div (10 * smallest_octant_den)

\* node.size > smallest_octant; the size is an integer, so it exceeds
\* One/smallest_octant_den exactly when it exceeds the integer part of it
AboveSmallest(size) == size > One \div smallest_octant_den

\* the deep copy of a leaf that becomes an internal node (add, case 3)
deepcopy(b) ==
    [kind |-> "node", m |-> b.m, m_pos |-> b.m_pos, momentum |-> b.momentum,
     size |-> b.size, relative_position |-> b.relative_position,
     child |-> NoChildren]

\* add, lines 96 to 110, with node.m and node.m_pos updated in place of
\* new_node.m and new_node.m_pos: the leaf, not its copy, takes the mass
grow_on_node(bs, i, node) ==
    IF ChildIsNone(node)
    THEN LET old == place_into_octant(bs[node.id])
             hit == [old.obj EXCEPT !.m = @ + bs[i].m,
                                    !.m_pos = VAdd(@, bs[i].m_pos)]
         IN  [bs   |-> [bs EXCEPT ![node.id] = hit],
              node |-> [deepcopy(bs[node.id]) EXCEPT
                            !.child[old.octant + 1] = node]]
    ELSE [bs   |-> bs,
          node |-> [node EXCEPT !.m = @ + bs[i].m,
                                !.m_pos = VAdd(@, bs[i].m_pos)]]

\* add, lines 96 to 110: a leaf is replaced by a copy of itself that holds
\* it as a child (case 3), an internal node is kept (case 2); the node then
\* takes the mass and the position of the body of index i
grow(bs, i, node) ==
    LET old  == IF ChildIsNone(node)
                THEN place_into_octant(bs[node.id])
                ELSE [obj |-> node, octant |-> 0]
        bs1  == IF ChildIsNone(node)
                THEN [bs EXCEPT ![node.id] = old.obj]
                ELSE bs
        new0 == IF ChildIsNone(node)
                THEN [deepcopy(bs[node.id]) EXCEPT
                          !.child[old.octant + 1] = node]
                ELSE node
    IN  [bs   |-> bs1,
         node |-> [new0 EXCEPT !.m = @ + bs1[i].m,
                               !.m_pos = VAdd(@, bs1[i].m_pos)]]

\* add(body, node) for the body of index i: the returned node and the list
\* of bodies, whose size and relative_position the call changes in place
RECURSIVE add(_, _, _)
add(bs, i, node) ==
    IF node.kind = "none" THEN [bs |-> bs, node |-> Leaf(i)]
    ELSE IF AboveSmallest(Obj(bs, node).size) THEN
        LET grown == grow(bs, i, node)
            mine  == place_into_octant(grown.bs[i])
            bs2   == [grown.bs EXCEPT ![i] = mine.obj]
            sub   == add(bs2, i, grown.node.child[mine.octant + 1])
        IN  [bs   |-> sub.bs,
             node |-> [grown.node EXCEPT !.child[mine.octant + 1] = sub.node]]
    ELSE [bs |-> bs, node |-> None]

\* the recursive calls add(body, node) makes below the first one, for the
\* body of index i
RECURSIVE add_depth(_, _, _)
add_depth(bs, i, node) ==
    IF node.kind = "none" THEN 0
    ELSE IF AboveSmallest(Obj(bs, node).size) THEN
        LET grown == grow(bs, i, node)
            mine  == place_into_octant(grown.bs[i])
            bs2   == [grown.bs EXCEPT ![i] = mine.obj]
        IN  1 + add_depth(bs2, i, grown.node.child[mine.octant + 1])
    ELSE 0

-----------------------------------------------------------------------------
(* Forces                                                                  *)

\* |v[1]| + |v[2]| + |v[3]|, a natural of any size
AbsSum(v) ==
    IF IsNaN(v) THEN << >>
    ELSE BigAdd(BigAdd(BigOf(Abs(v[1])), BigOf(Abs(v[2]))), BigOf(Abs(v[3])))

\* node1.position() - node2.position() as the fraction n/q of the integer
\* vector n and q = node1.m*node2.m: m_pos1/m1 - m_pos2/m2. The doubles
\* of the source round: err/q is the sum of the sizes of the coordinates
\* of the two positions, a natural of any size, of which the rounding is
\* a fraction (Precision)
d12(node1, node2) ==
    [n   |-> VSub(VScale(node1.m_pos, node2.m), VScale(node2.m_pos, node1.m)),
     q   |-> node1.m * node2.m,
     err |-> BigAdd(Scale(AbsSum(node1.m_pos), node2.m),
                    Scale(AbsSum(node2.m_pos), node1.m))]

\* 2^50. A double has 53 binary digits: the divisions of position(), the
\* subtraction, the sum of squares and the square root of norm, and the
\* product by theta, leave the distance the source computes within
\* err/(q * 2^50) of |n|/q, whatever the order numpy sums the squares in
Precision == BigProd(<<32768, 32768, 32768, 32>>)

PrecisionSq == BigSq(Precision)

\* x + w < y, for x the square root of xsq: w < y and xsq + 2yw < y^2 + w^2
Under(xsq, w, y) ==
    /\ BigLess(w, y)
    /\ BigLess(BigAdd(xsq, Scale(BigMul(y, w), 2)),
               BigAdd(BigSq(y), BigSq(w)))

\* x > y + w, for x the square root of xsq
Over(xsq, w, y) == BigLess(BigSq(BigAdd(y, w)), xsq)

\* x and y are at least 1 apart, for x the square root of xsq:
\* x <= y - 1 or x >= y + 1
Apart(xsq, y) ==
    LET ysq == BigSq(y)
    IN  \/ BigLeq(BigAdd(xsq, Scale(y, 2)), BigAdd(ysq, <<1>>))
        \/ BigLeq(BigAdd(BigAdd(ysq, Scale(y, 2)), <<1>>), xsq)

\* the outcomes of the comparison x < y of the doubles of the source, for
\* the exact values x and y and the bound w/2^50 of the rounding: the
\* exact outcome when x and y are more than the bound apart (which they
\* are when the bound is below 1 and they are 1 apart), either outcome
\* otherwise
FloatLess(xsq, w, y) ==
    IF BigLess(w, Precision) /\ Apart(xsq, y) THEN {BigLess(xsq, BigSq(y))}
    ELSE IF Under(BigMul(xsq, PrecisionSq), w, BigMul(y, Precision))
    THEN {TRUE}
    ELSE IF Over(BigMul(xsq, PrecisionSq), w, BigMul(y, Precision))
    THEN {FALSE}
    ELSE BOOLEAN

\* a cutoff that lets the distance 0 through: 0 < d < cutoff_dist
BelowCutoff_nonzero(v) ==
    { b /\ SumSq(v.n) # << >> :
        b \in FloatLess(Scale(Scale(SumSq(v.n), cutoff_dist_den),
                              cutoff_dist_den),
                        Scale(v.err, cutoff_dist_den),
                        BigProd(<<One, v.q>>)) }

\* the outcomes of d < cutoff_dist for d = |v.n|/v.q, all scaled by
\* q * cutoff_dist_den:
\*   cutoff_dist_den * |v.n|  <  q * One,
\* within cutoff_dist_den * err / 2^50 of each other the doubles decide
BelowCutoff(v) ==
    FloatLess(Scale(Scale(SumSq(v.n), cutoff_dist_den), cutoff_dist_den),
              Scale(v.err, cutoff_dist_den),
              BigProd(<<One, v.q>>))

\* G of line 15 in length units and time steps, G*dt^2*One^3, is the
\* fraction G0_num/G0_den = G_e13 * One^3 / 10^17 = G_e13 * (One^3/2^17) / 5^17
G0_num == BigProd(<<G_e13, One \div 128, One \div 32, One \div 32>>)
G0_den == BigProd(<<1953125, 390625>>)

\* G*node1.m*node2.m*(d12)/d**3 for d12 = v.n/v.q, rounded to the nearest
\* integer (a half away from zero): on the axis k twice the size of the
\* force has the integer part h, the largest integer with
\*   h * G0_den * g.den * |v.n|^3 <= G0_num * g.num * q^3 * 2 * |v.n[k]|,
\* found from the squares of the two sides; on an axis where v is not
\* longest, h is the one of the longest axis times |v.n[k]| / |v.n[top]|,
\* which the integer parts settle up to 1
Attraction(g, m1, m2, v) ==
    LET S      == SumSq(v.n)
        q      == m1 * m2
        den    == BigMul(BigSq(BigMul(G0_den, BigOf(g.den))),
                         BigMul(S, BigSq(S)))
        N0     == BigMul(G0_num, BigOf(g.num * q * q * q))
        num(k) == BigSq(BigMul(N0, BigOf(2 * Abs(v.n[k]))))
        top    == ArgMax(v.n)
        htop   == RootQuot(den, num(top))
        h(k)   == IF k = top THEN htop
                  ELSE LET e == MulDiv(htop, Abs(v.n[k]), Abs(v.n[top]))[1]
                       IN  IF Fits(e + 1, den, num(k)) THEN e + 1 ELSE e
        f(k)   == (h(k) + 1) \div 2
    IN  IF S = << >> THEN NaN
        ELSE [k \in 1..3 |-> IF v.n[k] < 0 THEN -f(k) ELSE f(k)]

\* gravitational_force(node1, node2): the values the force node1 exerts on
\* node2 can have, one unless the doubles decide the comparison of line 125
gravitational_force(g, node1, node2) ==
    LET v == d12(node1, node2)
    IN  IF IsNaN(v.n) THEN {NaN}
        ELSE { IF below THEN Zero3 ELSE Attraction(g, node1.m, node2.m, v) :
                 below \in BelowCutoff(v) }

\* node.child == [None for ii in range(8)]
AllNone(n) == \A k \in 1..8 : n.child[k].kind = "none"

\* the outcomes of node.size < norm(node.position() - body.position())*theta
\* for d12 = v.n/v.q, all scaled by q * th.den: the comparison
\*   th.num * |v.n|  <  th.den * q * size
\* is false, and within th.num * err / 2^50 of each other the doubles decide
FarEnough(o, body, th) ==
    LET v == d12(o, body)
    IN  IF IsNaN(v.n) THEN {FALSE}
        ELSE { ~less :
                 less \in FloatLess(
                     Scale(Scale(SumSq(v.n), th.num), th.num),
                     Scale(v.err, th.num),
                     BigProd(<<o.size, th.den, v.q>>)) }

\* sum(...) of numpy arrays over the eight children: the sums of one value
\* of each of fs[1..8], added from the left as sum does
VSum(fs) ==
    { VAdd(VAdd(VAdd(VAdd(VAdd(VAdd(VAdd(a1, a2), a3), a4), a5), a6), a7), a8) :
        a1 \in fs[1], a2 \in fs[2], a3 \in fs[3], a4 \in fs[4],
        a5 \in fs[5], a6 \in fs[6], a7 \in fs[7], a8 \in fs[8] }

\* force_on(body, node, theta): the values the net force on body of the
\* bodies in node can have
RECURSIVE force_on(_, _, _, _, _)
force_on(g, bs, body, node, th) ==
    IF ChildIsNone(node) \/ AllNone(node)
    THEN gravitational_force(g, Obj(bs, node), body)
    ELSE UNION { IF far
                 THEN gravitational_force(g, node, body)
                 ELSE VSum([k \in 1..8 |->
                              IF node.child[k].kind = "none" THEN {Zero3}
                              ELSE force_on(g, bs, body, node.child[k], th)]) :
                 far \in FarEnough(node, body, th) }

\* one iteration of the loop of verlet: the body of index i is kicked,
\* drifted and kicked again; the lists of bodies it can leave
verlet_body(g, bs, i, root, th) ==
    UNION { LET b1  == [bs[i] EXCEPT
                          !.momentum = VAdd(@, VScale(VHalf(f1), dt))]
                b2  == [b1 EXCEPT !.m_pos = VAdd(@, VScale(b1.momentum, dt))]
                bs2 == [bs EXCEPT ![i] = b2]
            IN  { [bs2 EXCEPT ![i].momentum = VAdd(@, VScale(VHalf(f2), dt))] :
                    f2 \in force_on(g, bs2, b2, root, th) } :
            f1 \in force_on(g, bs, bs[i], root, th) }

-----------------------------------------------------------------------------
(* Input and output                                                        *)

\* G *= (0.4/ini_radius)**3, ini_radius in tenths of kpc
rescale(g, ini_radius) ==
    Ratio(g.num * ini_radius_ref * ini_radius_ref * ini_radius_ref,
          g.den * ini_radius * ini_radius * ini_radius)

\* status[i, 4:7] = status[i, 0]*Kep_v*vec_vel with Kep_v = sqrt(G*BHM/R):
\* p0 is the momentum the seeded draws give for the unscaled constant
orbital_momentum(g, p0) ==
    [k \in 1..3 |-> Quot(p0[k] * isqrt(g.num), isqrt(g.den))]

\* state = model(N, alpha, beta) for the callable given to
\* system_init_write: the N x 7 array of rows (m, r, p). The callable is
\* any generator that, as kepler_galaxy does, gives each row a momentum
\* proportional to sqrt(G); the sample holds its rows for the unscaled G
model(g, N, sample) ==
    [k \in 1..N |-> [m |-> sample[k].m, r |-> sample[k].r,
                     p |-> orbital_momentum(g, sample[k].p)]]

\* system_init_read: the list of Node objects built from the rows
system_init_read(state, N) ==
    [k \in 1..N |-> Node(state[k].m, state[k].r, state[k].p)]

\* save_data: Data is the N x 7 array of zeros, filled with the current
\* state of the bodies, one row for every body of the list. A list of
\* fewer than N bodies leaves rows of zeros; one of more than N raises
\* IndexError at Data[ii, 0] = body.m for ii = N, and nothing is saved
save_data(bs, N) ==
    IF Len(bs) > N THEN [raises |-> TRUE, Data |-> << >>]
    ELSE [raises |-> FALSE,
          Data |-> [k \in 1..N |->
                      IF k <= Len(bs)
                      THEN [m |-> bs[k].m, r |-> position(bs[k]),
                            p |-> bs[k].momentum]
                      ELSE [m |-> 0, r |-> Zero3, p |-> Zero3]]]

\* a save test that counts the iterations from 1: (i+1)%save_step==0
SaveDue_from_one(i, save_step) == (i + 1) % save_step = 0

\* if i%save_step==0
SaveDue(i, save_step) == i % save_step = 0

-----------------------------------------------------------------------------
(* Bounds and inputs                                                       *)

\* most bodies of a galaxy
MaxBodies == 3

\* largest n given to evolve
MaxSteps == 3

\* largest save_step given to evolve
MaxSaveStep == 3

\* most runs (system_init_write, system_init_read, evolve) in a behaviour
MaxRuns == 2

\* a process starts one more run only while G is at least the constant of
\* line 15 divided by MaxShrink
MaxShrink == 4096

\* the center of the unit cube, 0.5
Half == One \div 2

\* 2^-15, the spacing of the positions of the rows: half the edge of the
\* smallest octant add descends to
Grid == One \div 32768

\* the position (0.5, 0.5, 0.5) + (x, y, z) * 2^-15
At(x, y, z) == <<Half + x * Grid, Half + y * Grid, Half + z * Grid>>

\* the momentum (x, y, z) * 2^-15 per time step
Mom(x, y, z) == <<x * Grid, y * Grid, z * Grid>>

\* rows (mass, position, momentum for the unscaled G) of the callables
\* given to system_init_write. They are not the draws of kepler_galaxy,
\* whose masses are 1 to 50 with a body of 4e6 at the center: they are
\* bodies of small masses that evolve accepts as it accepts any list, at
\* the same place, within and beyond cutoff_dist of each other, apart, and
\* about to leave the unit cube
BodyChoices ==
    { [m |-> 1, r |-> At(1, 1, 1),        p |-> Zero3],
      [m |-> 2, r |-> At(1, 1, 1),        p |-> Zero3],
      [m |-> 1, r |-> <<Half + Grid + Grid \div 2, Half + Grid, Half + Grid>>,
                                          p |-> Zero3],
      [m |-> 1, r |-> At(3, 3, 3),        p |-> Zero3],
      [m |-> 1, r |-> At(401, 1, 1),      p |-> Mom(64, 0, 0)],
      [m |-> 2, r |-> At(-399, 1, 1),     p |-> Zero3],
      [m |-> 1, r |-> At(16383, 1, 1),    p |-> Mom(512, 0, 0)],
      [m |-> 1, r |-> At(-16383, 1, -39), p |-> Mom(-512, 0, 0)],
      [m |-> 2, r |-> At(1, 201, -199),   p |-> Mom(0, 64, -64)] }

\* the rows of the systems of more than two bodies
LaterChoices ==
    { [m |-> 1, r |-> At(1, 1, 1),    p |-> Zero3],
      [m |-> 1, r |-> At(3, 3, 3),    p |-> Zero3],
      [m |-> 2, r |-> At(-399, 1, 1), p |-> Zero3] }

\* ini_radius in tenths of kpc: 0.4, 1.6 and 6.4
RadiusChoices == {4, 16, 64}

\* the largest of them, for which G is rescaled by 1/4096
WidestRadius ==
    CHOOSE r \in RadiusChoices : \A x \in RadiusChoices : x <= r

\* the sample of the runs that vary n and save_step, or are repeated
PlainSample ==
    <<[m |-> 1, r |-> At(401, 1, 1),    p |-> Mom(64, 0, 0)],
      [m |-> 2, r |-> At(1, 201, -199), p |-> Mom(0, 64, -64)]>>

\* three bodies with a node at the limit of line 146: the second and the
\* third share the octant of size 2^-10 at 96*2^-15 to 128*2^-15 from the
\* center, their center of mass is 10/3 of that size from the first, and
\* theta times the distance is the size: the doubles decide the comparison
LimitSample ==
    <<[m |-> 1, r |-> At(0, 1, 1),   p |-> Zero3],
      [m |-> 1, r |-> At(96, 1, 1),  p |-> Zero3],
      [m |-> 2, r |-> At(112, 1, 1), p |-> Zero3]>>

-----------------------------------------------------------------------------
(* State                                                                   *)

VARIABLES
    cfg,        \* the parameters: N, n, save_step, ini_radius, sample, runs
    G,          \* the module global G, as a multiple of its first value
    init_file,  \* 'Initial State': the rows written by system_init_write
    evol_file,  \* 'Evolution': the snapshots appended by save_data
    archive,    \* the two files as each finished run left them
    bodies,     \* the list of bodies given to evolve
    root,       \* the octo-tree of the current iteration
    pc,         \* where the program is
    i,          \* the loop index of evolve
    j,          \* the index of the body the inner loop is at
    steps       \* calls of verlet made by the current evolve

vars == <<cfg, G, init_file, evol_file, archive, bodies, root, pc, i, j, steps>>

Init ==
    /\ \E N \in 2..MaxBodies, n \in 0..MaxSteps, s \in 1..MaxSaveStep,
          r \in RadiusChoices, runs \in 1..MaxRuns :
         \E sample \in [1..N -> BodyChoices] \cup {LimitSample} :
            /\ N = Len(sample)
            /\ N > 2 => \/ \A k \in 1..N : sample[k] \in LaterChoices
                        \/ sample = LimitSample
            /\ \/ sample # LimitSample /\ n <= 1 /\ s = 1 /\ runs = 1 /\ r = WidestRadius
               \/ sample = PlainSample /\ r # WidestRadius
               \/ sample = LimitSample /\ n = 0 /\ s = 1 /\ runs = 1
            /\ cfg = [N |-> N, n |-> n, save_step |-> s, ini_radius |-> r,
                      sample |-> sample, runs |-> runs]
    /\ G = [num |-> 1, den |-> 1]
    /\ init_file = << >>
    /\ evol_file = << >>
    /\ archive = << >>
    /\ bodies = << >>
    /\ root = None
    /\ pc = "start"
    /\ i = 0
    /\ j = 0
    /\ steps = 0

-----------------------------------------------------------------------------
(* Actions                                                                 *)

\* Init_system.py: system_init_write(N, model, ini_radius, ...)
SystemInitWrite ==
    /\ pc = "start"
    /\ G' = rescale(G, cfg.ini_radius)
    /\ init_file' = model(G', cfg.N, cfg.sample)
    /\ pc' = "written"
    /\ UNCHANGED <<cfg, evol_file, archive, bodies, root, i, j, steps>>

\* the interpreter exits and a new one imports common: G is reset and
\* the objects are gone, the files stay
NewProcess ==
    /\ pc \in {"written", "done"}
    /\ G' = [num |-> 1, den |-> 1]
    /\ bodies' = << >>
    /\ root' = None
    /\ UNCHANGED <<cfg, init_file, evol_file, archive, pc, i, j, steps>>

\* bodies = system_init_read(N, ...)
SystemInitRead ==
    /\ pc = "written"
    /\ bodies' = system_init_read(init_file, cfg.N)
    /\ root' = None
    /\ pc' = "read"
    /\ UNCHANGED <<cfg, G, init_file, evol_file, archive, i, j, steps>>

\* evolve, up to the first iteration of its loop
EvolveBegin ==
    /\ pc = "read"
    /\ G' = rescale(G, cfg.ini_radius)
    /\ evol_file' = << >>
    /\ i' = 0
    /\ j' = 1
    /\ steps' = 0
    /\ root' = None
    /\ pc' = "reset"
    /\ UNCHANGED <<cfg, init_file, archive, bodies>>

\* body.reset_location()
ResetLocation ==
    /\ pc = "reset"
    /\ bodies' = [bodies EXCEPT ![j] = reset_location(@)]
    /\ pc' = "add"
    /\ UNCHANGED <<cfg, G, init_file, evol_file, archive, root, i, j, steps>>

\* root = add(body, root)
AddBody ==
    /\ pc = "add"
    /\ LET res == add(bodies, j, root)
       IN  /\ bodies' = res.bs
           /\ root' = res.node
    /\ IF j = cfg.N THEN pc' = "verlet" /\ j' = 1
                    ELSE pc' = "reset" /\ j' = j + 1
    /\ UNCHANGED <<cfg, G, init_file, evol_file, archive, i, steps>>

\* verlet(bodies, root, theta, dt): one pass of its loop
VerletBody ==
    /\ pc = "verlet"
    /\ bodies' \in verlet_body(G, bodies, j, root,
                                [num |-> theta_num, den |-> theta_den])
    /\ IF j = cfg.N THEN pc' = "save" /\ j' = 1 /\ steps' = steps + 1
                    ELSE pc' = "verlet" /\ j' = j + 1 /\ steps' = steps
    /\ UNCHANGED <<cfg, G, init_file, evol_file, archive, root, i>>

\* the end of an iteration of evolve: the loop goes on to i + 1, or ends
NextIteration ==
    /\ IF i = cfg.n THEN pc' = "close" /\ i' = i
                    ELSE pc' = "reset" /\ i' = i + 1
    /\ root' = IF i = cfg.n THEN root ELSE None

\* if i%save_step==0: save_data(File, bodies, N); the IndexError of
\* save_data ends evolve
SaveData ==
    /\ pc = "save"
    /\ SaveDue(i, cfg.save_step)
    /\ LET saved == save_data(bodies, cfg.N)
       IN  IF saved.raises
           THEN /\ pc' = "raised"
                /\ UNCHANGED <<evol_file, root, i>>
           ELSE /\ evol_file' = Append(evol_file, saved.Data)
                /\ NextIteration
    /\ UNCHANGED <<cfg, G, init_file, archive, bodies, j, steps>>

\* i%save_step != 0: nothing is saved
SkipSave ==
    /\ pc = "save"
    /\ ~SaveDue(i, cfg.save_step)
    /\ NextIteration
    /\ UNCHANGED <<cfg, G, init_file, evol_file, archive, bodies, j, steps>>

\* File.close(): evolve returns
EvolveEnd ==
    /\ pc = "close"
    /\ archive' = Append(archive, [init |-> init_file, evol |-> evol_file])
    /\ pc' = "done"
    /\ UNCHANGED <<cfg, G, init_file, evol_file, bodies, root, i, j, steps>>

\* the same configuration is run again
NextRun ==
    /\ pc = "done"
    /\ Len(archive) < cfg.runs
    /\ G.den <= MaxShrink * G.num
    /\ pc' = "start"
    /\ UNCHANGED <<cfg, G, init_file, evol_file, archive, bodies, root, i, j,
                   steps>>

Next ==
    \/ SystemInitWrite
    \/ NewProcess
    \/ SystemInitRead
    \/ EvolveBegin
    \/ ResetLocation
    \/ AddBody
    \/ VerletBody
    \/ SaveData
    \/ SkipSave
    \/ EvolveEnd
    \/ NextRun

Spec == Init /\ [][Next]_vars

-----------------------------------------------------------------------------
(* Reading the tree                                                        *)

\* the octo-tree has just been built from all the bodies
TreeBuilt == pc = "verlet" /\ j = 1

\* the bodies that are leaves of the subtree n, as a bag of indices
RECURSIVE LeafBag(_)
LeafBag(n) ==
    IF n.kind = "none" THEN EmptyBag
    ELSE IF n.kind = "body" THEN SetToBag({n.id})
    ELSE LeafBag(n.child[1]) (+) LeafBag(n.child[2]) (+) LeafBag(n.child[3])
         (+) LeafBag(n.child[4]) (+) LeafBag(n.child[5])
         (+) LeafBag(n.child[6]) (+) LeafBag(n.child[7])
         (+) LeafBag(n.child[8])

\* the internal nodes of the subtree n
RECURSIVE InternalNodes(_)
InternalNodes(n) ==
    IF n.kind # "node" THEN {}
    ELSE {n} \cup UNION {InternalNodes(n.child[k]) : k \in 1..8}

RECURSIVE SumOver(_, _, _)
\* the sum of f[k] * copies of k in the bag, for numbers
SumOver(bag, f, ks) ==
    IF ks = {} THEN 0
    ELSE LET k == CHOOSE x \in ks : TRUE
         IN  f[k] * CopiesIn(k, bag) + SumOver(bag, f, ks \ {k})

\* the mass of the leaves of the subtree n
LeafMass(bs, n) ==
    LET bag == LeafBag(n)
    IN  SumOver(bag, [k \in DOMAIN bs |-> bs[k].m], BagToSet(bag))

\* the m_pos of the leaves of the subtree n
LeafMPos(bs, n) ==
    LET bag == LeafBag(n)
    IN  [c \in 1..3 |->
           SumOver(bag, [k \in DOMAIN bs |-> bs[k].m_pos[c]], BagToSet(bag))]

-----------------------------------------------------------------------------
(* C1: once reset_location and add have been called for every body, every  *)
(* internal node carries the mass and the m_pos of the body leaves below   *)
(* it, the root carries the mass of all the bodies, and every body is      *)
(* reachable as exactly one leaf.                                          *)
C1_Aggregation ==
    TreeBuilt =>
        /\ \A n \in InternalNodes(root) :
              /\ n.m = LeafMass(bodies, n)
              /\ n.m_pos = LeafMPos(bodies, n)
        /\ Obj(bodies, root).m
              = SumOver(SetToBag(1..cfg.N), [k \in 1..cfg.N |-> bodies[k].m],
                        1..cfg.N)
        /\ LeafBag(root) = SetToBag(1..cfg.N)

-----------------------------------------------------------------------------
(* C2: for theta = 0 and every body b of the set the tree was built from,  *)
(* force_on(b, root, 0) is the direct sum of gravitational_force(c, b)     *)
(* over the other bodies c.                                                *)

theta_zero == [num |-> 0, den |-> 1]

RECURSIVE DirectSum(_, _, _, _)
\* the sums of gravitational_force(bs[c], bs[b]) over the bodies c # b,
\* c <= k
DirectSum(g, bs, b, k) ==
    IF k = 0 THEN {Zero3}
    ELSE IF k = b THEN DirectSum(g, bs, b, k - 1)
    ELSE { VAdd(f, rest) : f \in gravitational_force(g, bs[k], bs[b]),
                              rest \in DirectSum(g, bs, b, k - 1) }

\* two forces agree up to the rounding of tol terms of the fixed point
Agree(a, b, tol) ==
    IF IsNaN(a) \/ IsNaN(b) THEN a = b
    ELSE \A c \in 1..3 : Abs(a[c] - b[c]) <= tol

C2_ThetaZeroIsDirectSum ==
    TreeBuilt =>
        \A b \in 1..cfg.N :
            \A f \in force_on(G, bodies, bodies[b], root, theta_zero) :
                \E sum \in DirectSum(G, bodies, b, cfg.N) :
                    Agree(f, sum, cfg.N)

-----------------------------------------------------------------------------
(* C3: during a call of verlet no position that force_on reads in the tree *)
(* changes: the leaves and the internal nodes keep the positions they had  *)
(* when the tree was built, whatever bodies have drifted already.          *)

\* the positions force_on can read in the subtree n
RECURSIVE TreePositions(_, _)
TreePositions(bs, n) ==
    IF n.kind = "none" THEN << >>
    ELSE IF n.kind = "body" THEN <<position(bs[n.id])>>
    ELSE <<position(n), [k \in 1..8 |-> TreePositions(bs, n.child[k])]>>

C3_PreDriftTree ==
    [][pc = "verlet" =>
          TreePositions(bodies', root') = TreePositions(bodies, root)]_vars

-----------------------------------------------------------------------------
(* C4: no tree build and no verlet step changes the mass of a body, and    *)
(* the masses of every snapshot add up to the masses of the initial state. *)

RECURSIVE RowsMass(_, _)
RowsMass(rows, k) == IF k = 0 THEN 0 ELSE rows[k].m + RowsMass(rows, k - 1)

C4_MassUnchanged ==
    /\ \A k \in DOMAIN bodies : bodies[k].m = init_file[k].m
    /\ \A s \in DOMAIN evol_file :
          RowsMass(evol_file[s], cfg.N) = RowsMass(init_file, cfg.N)

\* evolve has rebuilt the tree at least twice, split leaves, and saved
C4_Witness ==
    /\ pc = "close"
    /\ Len(evol_file) >= 2
    /\ root.kind = "node"
    /\ \E k \in DOMAIN bodies : bodies[k].m = 2

-----------------------------------------------------------------------------
(* C5: whenever G changes it becomes the base constant (a new process) or  *)
(* the base constant rescaled by (0.4/ini_radius)^3 exactly once.          *)

G_base == [num |-> 1, den |-> 1]

C5_RescaledOnce ==
    [][G' # G => G' \in {G_base, rescale(G_base, cfg.ini_radius)}]_vars

-----------------------------------------------------------------------------
(* C6: all the runs of a behaviour have the same configuration; they leave *)
(* the same initial-state and Evolution artifacts.                         *)
C6_RunsAgree ==
    \A a, b \in DOMAIN archive : archive[a] = archive[b]

-----------------------------------------------------------------------------
(* C7: gravitational_force is exactly zero for any two nodes less than     *)
(* 1e-4 apart, distance 0 included; during verlet the force of the tree   *)
(* on a body is never NaN, and no momentum or position of a body and no    *)
(* saved row is ever NaN.                                                  *)

\* the positions m_pos/m of a and b are less than 1e-4 apart: with
\* w = b.m*a.m_pos - a.m*b.m_pos, |w|^2 * 10^8 < (One * a.m * b.m)^2,
\* which needs each coordinate of w/(a.m * b.m) to be below One/10^4
Within1e4(a, b) ==
    LET w == [c \in 1..3 |-> b.m * a.m_pos[c] - a.m * b.m_pos[c]]
    IN  /\ \A c \in 1..3 : Abs(w[c]) \div (a.m * b.m) <= One \div 10000
        /\ BigLess(BigMul(SumSq(w), BigProd(<<10000, 10000>>)),
                   BigSq(BigProd(<<One, a.m, b.m>>)))

\* what gravitational_force reads of a body or a node
PointMass(o) == [m |-> o.m, m_pos |-> o.m_pos]

RECURSIVE NodeMasses(_)
\* the internal nodes of the tree n, as point masses
NodeMasses(n) ==
    IF n.kind # "node" THEN {}
    ELSE {PointMass(n)} \cup UNION {NodeMasses(n.child[k]) : k \in 1..8}

\* the bodies and the internal nodes of the tree
Objects == {PointMass(bodies[k]) : k \in DOMAIN bodies} \cup NodeMasses(root)

C7_CutoffNoNaN ==
    /\ \A k \in DOMAIN bodies :
          ~IsNaN(bodies[k].momentum) /\ ~IsNaN(bodies[k].m_pos)
    /\ \A s \in DOMAIN evol_file : \A k \in DOMAIN evol_file[s] :
          ~IsNaN(evol_file[s][k].r) /\ ~IsNaN(evol_file[s][k].p)
    /\ \A a \in Objects : \A k \in DOMAIN bodies :
          Within1e4(a, bodies[k])
              => gravitational_force(G, a, bodies[k]) = {Zero3}
    /\ pc = "verlet" =>
          \A k \in DOMAIN bodies :
              \A f \in force_on(G, bodies, bodies[k], root,
                                [num |-> theta_num, den |-> theta_den]) :
                  ~IsNaN(f)

\* verlet has run over two bodies at different places less than 1e-4
\* apart, and over a body less than 1e-4 from an internal node whose
\* center of mass m_pos/m is not a whole number of length units
C7_Witness ==
    /\ pc = "save"
    /\ \E a, b \in DOMAIN bodies :
          /\ Within1e4(bodies[a], bodies[b])
          /\ position(bodies[a]) # position(bodies[b])
    /\ \E n \in NodeMasses(root) : \E k \in DOMAIN bodies :
          /\ Within1e4(n, bodies[k])
          /\ n.m_pos[1] % n.m # 0

-----------------------------------------------------------------------------
(* C8: evolve called with n makes exactly n calls of verlet.               *)
C8_ExactlyNSteps == pc = "close" => steps = cfg.n

-----------------------------------------------------------------------------
(* C9: after k integrator steps evolve has appended ceil(k/save_step)      *)
(* snapshots, one every save_step steps, floor(n/save_step) + 1 when it    *)
(* returns, each with one row for every one of the N bodies.               *)
C9_Snapshots ==
    /\ pc \in {"reset", "add", "verlet"} =>
          Len(evol_file) = (steps + cfg.save_step - 1) \div cfg.save_step
    /\ pc = "save" =>
          Len(evol_file) = (steps - 1 + cfg.save_step - 1) \div cfg.save_step
    /\ pc \in {"close", "done"} =>
          Len(evol_file) = cfg.n \div cfg.save_step + 1
    /\ \A s \in DOMAIN evol_file : DOMAIN evol_file[s] = 1..cfg.N

\* evolve returns after 4 steps with save_step = 2: two snapshots
C9_Witness ==
    /\ pc = "close"
    /\ cfg.save_step = 2
    /\ cfg.n = 3
    /\ Len(evol_file) = 2

-----------------------------------------------------------------------------
(* C10: every body that has been given a location has its                  *)
(* relative_position in [0,1)^3, at the start of its insertion and after   *)
(* its last place_into_octant, and a body outside the unit cube is a leaf  *)
(* of the tree built from the bodies.                                      *)

InUnitCube(v) == \A c \in 1..3 : 0 <= v[c] /\ v[c] < One

C10_InsideRootCube ==
    /\ \A k \in DOMAIN bodies :
          bodies[k].size > 0 => InUnitCube(bodies[k].relative_position)
    /\ TreeBuilt =>
          \A k \in DOMAIN bodies :
              ~InUnitCube(position(bodies[k])) => BagIn(k, LeafBag(root))

-----------------------------------------------------------------------------
(* C11: when add discards the body it was given, at a non-empty node of    *)
(* size <= 1e-4, the bodies that were leaves of the tree are still its     *)
(* leaves, and the m and m_pos of the root are not increased by the        *)
(* discarded body.                                                         *)

\* the call add(bodies[j], root) of this step has discarded the body
Discarded == pc = "add" /\ ~BagIn(j, LeafBag(root'))

C11_OnlyNewBodyDiscarded ==
    [][Discarded =>
          /\ LeafBag(root') = LeafBag(root)
          /\ Obj(bodies', root').m = Obj(bodies, root).m
          /\ Obj(bodies', root').m_pos = Obj(bodies, root).m_pos]_vars

-----------------------------------------------------------------------------
(* C12: in the tree built from all the bodies, every internal node has at  *)
(* least two body leaves among its descendants.                            *)
C12_TwoDescendants ==
    TreeBuilt =>
        \A n \in InternalNodes(root) : BagCardinality(LeafBag(n)) >= 2

-----------------------------------------------------------------------------
(* C13: add(body, node) returns for every body and every tree, coincident  *)
(* bodies and bodies outside the unit cube included: it makes at most 14   *)
(* recursive calls, each of which halves the size of the body, so no body  *)
(* ever has a size below 2^-14.                                            *)
C13_AddTerminates ==
    /\ pc = "add" =>
          LET d == add_depth(bodies, j, root)
          IN  /\ d <= 14
              /\ add(bodies, j, root).bs[j].size * 2^d = bodies[j].size
    /\ \A k \in DOMAIN bodies :
          bodies[k].size > 0 => bodies[k].size >= One \div 2^14

\* the tree has just been built, and add has made 14 recursive calls for a
\* body outside the unit cube
C13_Witness ==
    /\ TreeBuilt
    /\ \E k \in DOMAIN bodies :
          /\ bodies[k].size = One \div 2^14
          /\ ~InUnitCube(position(bodies[k]))

-----------------------------------------------------------------------------
(* C14: for a relative_position v in [0,1)^3 place_into_octant returns     *)
(* 4*qx + 2*qy + qz with q = 1 on the axes where v >= 0.5, halves the size *)
(* and leaves 2*v - q, again in [0,1)^3; two bodies get the same octant    *)
(* exactly when they are in the same half on every axis, and the children  *)
(* of the root hold the bodies by that number.                             *)

\* q: 1 on the axes where v >= 0.5
UpperHalf(v) == [c \in 1..3 |-> IF 2 * v[c] >= One THEN 1 ELSE 0]

\* the bodies place_into_octant can be called on, inside the cube
Placeable(b) == b.size >= 2 /\ InUnitCube(b.relative_position)

C14_OctantId ==
    /\ \A k \in DOMAIN bodies :
          LET b   == bodies[k]
              v   == b.relative_position
              q   == UpperHalf(v)
              res == place_into_octant(b)
          IN  Placeable(b) =>
                /\ res.octant = 4 * q[1] + 2 * q[2] + q[3]
                /\ 2 * res.obj.size = b.size
                /\ \A c \in 1..3 :
                      res.obj.relative_position[c] = 2 * v[c] - q[c] * One
                /\ InUnitCube(res.obj.relative_position)
    /\ \A a, b \in DOMAIN bodies :
          Placeable(bodies[a]) /\ Placeable(bodies[b]) =>
             ((place_into_octant(bodies[a]).octant
                  = place_into_octant(bodies[b]).octant)
              <=> UpperHalf(bodies[a].relative_position)
                     = UpperHalf(bodies[b].relative_position))
    /\ (TreeBuilt /\ root.kind = "node") =>
          \A o \in 0..7 :
             LET c == root.child[o + 1]
             IN  (c.kind = "body" /\ InUnitCube(position(bodies[c.id]))) =>
                    LET q == UpperHalf(position(bodies[c.id]))
                    IN  o = 4 * q[1] + 2 * q[2] + q[3]

\* the root holds a body in octant 6 (x and y upper, z lower) and another
\* in octant 3 (x lower, y and z upper)
C14_Witness ==
    /\ TreeBuilt
    /\ root.kind = "node"
    /\ root.child[7].kind = "body"
    /\ root.child[4].kind = "body"

=============================================================================
